---- MODULE Spec2Model ----
(***************************************************************************)
(* Schema-drift detection and derived-cache invalidation of the            *)
(* "Assistente SQL com Auto-Deteccao" Streamlit application (src/app.py).  *)
(*                                                                         *)
(* One behaviour is one browser session: a sequence of script runs.  Each  *)
(* script run executes the module-level code of app.py top to bottom:      *)
(*   verificar_mudancas()            (line 282)                            *)
(*   if mudou: st.cache_resource.clear()   (lines 284-304)                 *)
(*   criar_vectordb_teste()          (line 307)                            *)
(*   sidebar buttons / chat input    (lines 358-364, 488-500)              *)
(* st.session_state survives between runs, the st.cache_resource cache     *)
(* survives until it is cleared, the script's own globals do not survive.  *)
(*                                                                         *)
(* Table and column names are numbers (sorted() is numeric order).  An     *)
(* optional value (Python None) is a sequence of length 0 or 1.            *)
(***************************************************************************)
EXTENDS Integers, Sequences, FiniteSets, TLC

\* ---------------------------------------------------------------- bounds
\* Number of script runs of one session that the model follows.
MaxCiclos == 3

\* No question is typed while the chat holds this many messages or more.
MaxMensagens == 1

\* ------------------------------------------------------ optional values
None == <<>>
Some(x) == <<x>>
Val(o) == o[1]

\* ------------------------------------------------- the world being read
Tabelas == {1, 2}
Bancos == {"A", "B"}
BancoDesconhecido == "Banco Desconhecido"

\* What the inspector may list: the table names as get_table_names returns
\* them and, per table, the column names as get_columns returns them, each in
\* whatever order the driver uses.  Table 2 has the single column 1.
colunas_com(c1) == [t \in Tabelas |-> IF t = 1 THEN c1 ELSE <<1>>]

Catalogos ==
    { [tabelas |-> <<>>, colunas |-> colunas_com(<<1>>)],
      [tabelas |-> <<1>>, colunas |-> colunas_com(<<1>>)],
      [tabelas |-> <<1>>, colunas |-> colunas_com(<<1, 2>>)],
      [tabelas |-> <<1>>, colunas |-> colunas_com(<<2, 1>>)],
      [tabelas |-> <<2>>, colunas |-> colunas_com(<<1>>)],
      [tabelas |-> <<1, 2>>, colunas |-> colunas_com(<<1>>)],
      [tabelas |-> <<2, 1>>, colunas |-> colunas_com(<<1>>)],
      [tabelas |-> <<1, 1>>, colunas |-> colunas_com(<<1>>)] }

\* What one pass over the catalog can yield: the catalog read works or
\* raises (ok), the identity query works or raises (banco).
Leituras ==
    { [ok |-> TRUE, tabelas |-> c.tabelas, colunas |-> c.colunas, banco |-> b] :
        c \in Catalogos, b \in { Some(x) : x \in Bancos } \cup {None} }
    \cup { [ok |-> FALSE, tabelas |-> <<>>, colunas |-> colunas_com(<<1>>),
            banco |-> None] }

\* ------------------------------------------------------ pure functions
Range(s) == { s[i] : i \in DOMAIN s }

\* Variant: the list is used in the order it arrived in.
sorted_sem_ordenar(s) == s

\* sorted(list): ascending order, duplicates kept.
RECURSIVE sorted(_)
sorted(s) ==
    IF s = <<>> THEN <<>>
    ELSE LET i == CHOOSE k \in DOMAIN s : \A j \in DOMAIN s : s[k] <= s[j]
             rest == [j \in 1..(Len(s) - 1) |-> IF j < i THEN s[j] ELSE s[j + 1]]
         IN <<s[i]>> \o sorted(rest)

\* obter_banco_atual: the name of the database, or the fallback literal when
\* the identity query raises.
obter_banco_atual(l) ==
    IF l.banco = None THEN BancoDesconhecido ELSE Val(l.banco)

\* json.dumps(schema_info, sort_keys=True): the entries in key order.
RECURSIVE json_dumps_de(_, _)
json_dumps_de(info, chaves) ==
    IF chaves = {} THEN <<>>
    ELSE LET k == CHOOSE x \in chaves : \A y \in chaves : x <= y
         IN << <<k, info[k]>> >> \o json_dumps_de(info, chaves \ {k})

json_dumps(info) == json_dumps_de(info, DOMAIN info)

\* hashlib.md5(...).hexdigest(): a digest of the serialised text.  The digest
\* is a positional numeral of the text, so that texts of the model that
\* differ have digests that differ (MD5 taken as collision free).
RECURSIVE digito_colunas(_)
digito_colunas(cols) ==
    IF cols = <<>> THEN 0 ELSE cols[1] + 3 * digito_colunas(Tail(cols))

RECURSIVE md5(_)
md5(texto) ==
    IF texto = <<>> THEN 1
    ELSE (texto[1][1] + 3 * digito_colunas(texto[1][2])) + 100 * md5(Tail(texto))

\* Variant: a read that raises is reported as a schema with no tables.
gerar_hash_schema_vazio_na_falha(l) ==
    IF ~l.ok THEN [hash |-> Some(md5(<<>>)), info |-> Some(<<>>),
                   banco |-> Some(BancoDesconhecido)]
    ELSE LET tabelas == sorted(l.tabelas)
             schema_info == [t \in Range(tabelas) |-> sorted(l.colunas[t])]
         IN [hash |-> Some(md5(json_dumps(schema_info))),
             info |-> Some(schema_info),
             banco |-> Some(obter_banco_atual(l))]

\* gerar_hash_schema: (hash_atual, schema_info, banco_nome), or three Nones
\* when anything inside the try raises.
gerar_hash_schema(l) ==
    IF ~l.ok THEN [hash |-> None, info |-> None, banco |-> None]
    ELSE LET tabelas == sorted(l.tabelas)
             schema_info == [t \in Range(tabelas) |-> sorted(l.colunas[t])]
         IN [hash |-> Some(md5(json_dumps(schema_info))),
             info |-> Some(schema_info),
             banco |-> Some(obter_banco_atual(l))]

\* extrair_schema_completo: the tables that get a schema document (one per
\* name the catalog lists); no document at all when the read raises.  The
\* database name returned beside them is only displayed and is left out.
extrair_schema_completo(l) ==
    IF ~l.ok THEN {} ELSE Range(l.tabelas)

\* ---------------------------------------------------------------- state
VARIABLES
    \* st.session_state
    schema_hash_teste, schema_info, banco_atual,
    novas_tabelas, deletadas_tabelas, historico_mudancas,
    cache_classificacoes, messages,
    \* st.cache_resource entry of criar_vectordb_teste
    recurso,
    \* st.cache_resource entry of conectar_banco
    engine,
    \* globals of the running script
    mudou, hash_ant, hash_novo, schema, banco_lido, tipo_mudanca, docs_info,
    \* what the catalog yielded to the verificar_mudancas call of this run
    leitura,
    \* the chat input of this run, the category classificar_intencao returned
    \* for it, and the outcome of llm.invoke when the call was made
    prompt, categoria, llm_invoke,
    \* the records the sidebar shows under "Historico de Mudancas", top first
    exibidos,
    \* position in the script, datetime.now()
    pc, relogio

observacao == <<schema_hash_teste, schema_info, banco_atual>>
ultimas == <<novas_tabelas, deletadas_tabelas>>
sessao == <<observacao, ultimas, historico_mudancas, cache_classificacoes>>
retorno == <<mudou, hash_ant, hash_novo, schema, banco_lido, tipo_mudanca>>
classificacao == <<prompt, categoria, llm_invoke>>
vars == <<sessao, messages, recurso, engine, retorno, docs_info, leitura,
          classificacao, exibidos, pc, relogio>>

\* ------------------------------------------------- verificar_mudancas
\* The tuple a call returns, as line 282 unpacks it into the script's globals.
retorna(m, ha, hn, s, b, t) ==
    /\ mudou' = m
    /\ hash_ant' = ha
    /\ hash_novo' = hn
    /\ schema' = s
    /\ banco_lido' = b
    /\ tipo_mudanca' = t

\* Variant: the difference taken the wrong way round.
tabelas_novas_invertida(anterior, nova) == (DOMAIN anterior) \ (DOMAIN nova)

\* The two set differences of the schema branch.
tabelas_novas(anterior, nova) == (DOMAIN nova) \ (DOMAIN anterior)
tabelas_deletadas(anterior, nova) == (DOMAIN anterior) \ (DOMAIN nova)

registro_banco(agora, anterior, novo) ==
    [timestamp |-> agora, tipo |-> "banco_novo",
     banco_anterior |-> anterior, banco_novo |-> novo]

registro_schema(agora, banco, novas, deletadas) ==
    [timestamp |-> agora, tipo |-> "schema", banco |-> banco,
     novas |-> novas, deletadas |-> deletadas]

\* Variant: a record whose content is already in the list is not added again.
append_sem_repetidos(lista, item) ==
    IF \E i \in DOMAIN lista :
           [lista[i] EXCEPT !.timestamp = 0] = [item EXCEPT !.timestamp = 0]
    THEN lista
    ELSE Append(lista, item)

\* list.append of the change history.
append(lista, item) == Append(lista, item)

\* Variant: every fingerprint counts as a new one.
hash_mudou_sempre(novo, anterior) == TRUE

\* The comparisons that choose the branch.
banco_mudou(novo, anterior) == novo # anterior
hash_mudou(novo, anterior) == novo # anterior

\* Lines 203-204: the catalog could not be read.
sem_leitura ==
    /\ UNCHANGED <<observacao, ultimas, historico_mudancas>>
    /\ retorna(FALSE, None, None, None, None, None)

\* Variant: the baseline is adopted without the database name.
primeira_observacao_sem_banco(g) ==
    /\ schema_hash_teste' = g.hash
    /\ schema_info' = g.info
    /\ UNCHANGED <<banco_atual, ultimas, historico_mudancas>>
    /\ retorna(FALSE, None, g.hash, g.info, g.banco, None)

\* Lines 206-210: nothing stored yet, the observation g becomes the baseline.
primeira_observacao(g) ==
    /\ schema_hash_teste' = g.hash
    /\ schema_info' = g.info
    /\ banco_atual' = g.banco
    /\ UNCHANGED <<ultimas, historico_mudancas>>
    /\ retorna(FALSE, None, g.hash, g.info, g.banco, None)

\* Variant: the new database is recorded but its snapshot is not stored.
troca_de_banco_sem_schema(g, agora) ==
    /\ historico_mudancas' =
           append(historico_mudancas,
                  registro_banco(agora, Val(banco_atual), Val(g.banco)))
    /\ banco_atual' = g.banco
    /\ schema_hash_teste' = g.hash
    /\ UNCHANGED <<schema_info, ultimas>>
    /\ retorna(TRUE, schema_hash_teste, g.hash, g.info, g.banco, Some("BANCO_NOVO"))

\* Lines 216-226: another database.
troca_de_banco(g, agora) ==
    /\ historico_mudancas' =
           append(historico_mudancas,
                  registro_banco(agora, Val(banco_atual), Val(g.banco)))
    /\ banco_atual' = g.banco
    /\ schema_hash_teste' = g.hash
    /\ schema_info' = g.info
    /\ UNCHANGED ultimas
    /\ retorna(TRUE, schema_hash_teste, g.hash, g.info, g.banco, Some("BANCO_NOVO"))

\* Variant: the new fingerprint is stored without its snapshot.
mudanca_de_schema_sem_info(g, agora) ==
    LET novas == tabelas_novas(Val(schema_info), Val(g.info))
        deletadas == tabelas_deletadas(Val(schema_info), Val(g.info))
    IN /\ historico_mudancas' =
              append(historico_mudancas,
                     registro_schema(agora, Val(g.banco), novas, deletadas))
       /\ schema_hash_teste' = g.hash
       /\ novas_tabelas' = novas
       /\ deletadas_tabelas' = deletadas
       /\ UNCHANGED <<schema_info, banco_atual>>
       /\ retorna(TRUE, schema_hash_teste, g.hash, g.info, g.banco,
                  Some("SCHEMA_MUDOU"))

\* Variant: the new snapshot is stored without its fingerprint.
mudanca_de_schema_sem_hash(g, agora) ==
    LET novas == tabelas_novas(Val(schema_info), Val(g.info))
        deletadas == tabelas_deletadas(Val(schema_info), Val(g.info))
    IN /\ historico_mudancas' =
              append(historico_mudancas,
                     registro_schema(agora, Val(g.banco), novas, deletadas))
       /\ schema_info' = g.info
       /\ novas_tabelas' = novas
       /\ deletadas_tabelas' = deletadas
       /\ UNCHANGED <<schema_hash_teste, banco_atual>>
       /\ retorna(TRUE, schema_hash_teste, g.hash, g.info, g.banco,
                  Some("SCHEMA_MUDOU"))

\* Lines 229-249: same database, another fingerprint.
mudanca_de_schema(g, agora) ==
    LET novas == tabelas_novas(Val(schema_info), Val(g.info))
        deletadas == tabelas_deletadas(Val(schema_info), Val(g.info))
    IN /\ historico_mudancas' =
              append(historico_mudancas,
                     registro_schema(agora, Val(g.banco), novas, deletadas))
       /\ schema_hash_teste' = g.hash
       /\ schema_info' = g.info
       /\ novas_tabelas' = novas
       /\ deletadas_tabelas' = deletadas
       /\ UNCHANGED banco_atual
       /\ retorna(TRUE, schema_hash_teste, g.hash, g.info, g.banco,
                  Some("SCHEMA_MUDOU"))

\* Line 251: nothing changed.
sem_mudanca(g) ==
    /\ UNCHANGED <<observacao, ultimas, historico_mudancas>>
    /\ retorna(FALSE, schema_hash_teste, g.hash, g.info, g.banco, None)

\* Variant: the fingerprint is compared before the database name.
verificar_mudancas_hash_primeiro(l, agora) ==
    \E g \in {gerar_hash_schema(l)} :
        IF g.hash = None THEN sem_leitura
        ELSE IF schema_hash_teste = None THEN primeira_observacao(g)
        ELSE IF hash_mudou(g.hash, schema_hash_teste) THEN mudanca_de_schema(g, agora)
        ELSE IF banco_mudou(g.banco, banco_atual) THEN troca_de_banco(g, agora)
        ELSE sem_mudanca(g)

\* verificar_mudancas with the catalog pass l, at time agora: the new session
\* state and the returned tuple.
verificar_mudancas(l, agora) ==
    \E g \in {gerar_hash_schema(l)} :
        IF g.hash = None THEN sem_leitura
        ELSE IF schema_hash_teste = None THEN primeira_observacao(g)
        ELSE IF banco_mudou(g.banco, banco_atual) THEN troca_de_banco(g, agora)
        ELSE IF hash_mudou(g.hash, schema_hash_teste) THEN mudanca_de_schema(g, agora)
        ELSE sem_mudanca(g)

\* Variant: st.cache_resource.clear() runs in every run.
apos_verificar_sempre_invalida(m) == "invalidar"

\* Variant: st.cache_resource.clear() is never reached.
apos_verificar_nunca_invalida(m) == "vectordb"

\* Where the script goes after line 282: into the "if mudou:" block or past it.
apos_verificar(m) == IF m THEN "invalidar" ELSE "vectordb"

\* ------------------------------------------------- criar_vectordb_teste
\* The collection is named after the time it is built at; its schema
\* documents are those of extrair_schema_completo.
criar_vectordb_teste(l, agora) ==
    [nome |-> agora, tabelas |-> extrair_schema_completo(l)]

\* ------------------------------------------------- sidebar history
\* Line 344: how many records of the history the sidebar shows.
N_HISTORICO == 5

\* Variant: the first n elements.
ultimos_do_inicio(lista, n) ==
    IF Len(lista) <= n THEN lista ELSE SubSeq(lista, 1, n)

\* lista[-n:]: the last n elements, all of them when there are fewer.
ultimos(lista, n) ==
    IF Len(lista) <= n THEN lista
    ELSE SubSeq(lista, Len(lista) - n + 1, Len(lista))

\* Variant: the list in the order it has.
reversed_sem_inverter(lista) == lista

\* reversed(lista).
reversed(lista) == [i \in 1..Len(lista) |-> lista[Len(lista) - i + 1]]

\* ------------------------------------------------- classificar_intencao
Perguntas == { <<"o", "i">>, <<" ", "O", "I">> }

minuscula(c) == IF c = "O" THEN "o" ELSE IF c = "I" THEN "i" ELSE c

lower(s) == [i \in DOMAIN s |-> minuscula(s[i])]

RECURSIVE lstrip(_)
lstrip(s) == IF s # <<>> /\ s[1] = " " THEN lstrip(Tail(s)) ELSE s

RECURSIVE rstrip(_)
rstrip(s) ==
    IF s # <<>> /\ s[Len(s)] = " " THEN rstrip(SubSeq(s, 1, Len(s) - 1)) ELSE s

strip(s) == rstrip(lstrip(s))

\* What llm.invoke may answer: a text, or nothing when the call raises.
RespostasLLM == { Some("SAUDACAO"), Some(" saudacao "), Some("Talvez"), None }

\* resposta.content.strip().upper() on the texts above.
strip_upper(texto) ==
    IF texto = " saudacao " THEN "SAUDACAO"
    ELSE IF texto = "Talvez" THEN "TALVEZ"
    ELSE texto

categorias_validas == {"SAUDACAO", "GENERICA", "QUERY_SQL", "IRRELEVANTE"}

dict_vazio == [k \in {} |-> "QUERY_SQL"]

dict_set(d, k, v) == [x \in (DOMAIN d) \cup {k} |-> IF x = k THEN v ELSE d[x]]

\* Variant: the cache key is the question in lower case, spaces kept.
pergunta_norm_sem_strip(pergunta) == lower(pergunta)

\* Line 373: pergunta.lower().strip().
pergunta_norm(pergunta) == strip(lower(pergunta))

\* Variant: the answer of the classifier is taken as it comes.
categoria_de_sem_filtro(lida) == lida

\* Lines 407-409: an answer outside categorias_validas counts as QUERY_SQL.
categoria_de(lida) ==
    IF lida \in categorias_validas THEN lida ELSE "QUERY_SQL"

\* Variant: the fallback of a failed call is stored like an answer.
classificar_intencao_memoriza_falha(pergunta, r) ==
    IF pergunta_norm(pergunta) \in DOMAIN cache_classificacoes THEN
        /\ categoria' = Some(cache_classificacoes[pergunta_norm(pergunta)])
        /\ llm_invoke' = None
        /\ UNCHANGED cache_classificacoes
    ELSE
        /\ categoria' = Some(IF r = None THEN "QUERY_SQL"
                              ELSE categoria_de(strip_upper(Val(r))))
        /\ llm_invoke' = Some(r)
        /\ cache_classificacoes' =
               dict_set(cache_classificacoes, pergunta_norm(pergunta),
                        IF r = None THEN "QUERY_SQL"
                        ELSE categoria_de(strip_upper(Val(r))))

\* classificar_intencao(pergunta, tabelas) where llm.invoke, if reached,
\* answers r: the returned category, the next cache, and in llm_invoke
\* whether the classifier was called and with what outcome.
classificar_intencao(pergunta, r) ==
    IF pergunta_norm(pergunta) \in DOMAIN cache_classificacoes THEN
        /\ categoria' = Some(cache_classificacoes[pergunta_norm(pergunta)])
        /\ llm_invoke' = None
        /\ UNCHANGED cache_classificacoes
    ELSE IF r = None THEN
        /\ categoria' = Some("QUERY_SQL")
        /\ llm_invoke' = Some(r)
        /\ UNCHANGED cache_classificacoes
    ELSE
        /\ categoria' = Some(categoria_de(strip_upper(Val(r))))
        /\ llm_invoke' = Some(r)
        /\ cache_classificacoes' =
               dict_set(cache_classificacoes, pergunta_norm(pergunta),
                        categoria_de(strip_upper(Val(r))))

\* ------------------------------------------------------------- the script
Init ==
    /\ schema_hash_teste = None
    /\ schema_info = None
    /\ banco_atual = None
    /\ novas_tabelas = {}
    /\ deletadas_tabelas = {}
    /\ historico_mudancas = <<>>
    /\ cache_classificacoes = dict_vazio
    /\ messages = <<>>
    /\ recurso = None
    /\ engine = None
    /\ mudou = FALSE
    /\ hash_ant = None
    /\ hash_novo = None
    /\ schema = None
    /\ banco_lido = None
    /\ tipo_mudanca = None
    /\ docs_info = None
    /\ leitura = None
    /\ prompt = None
    /\ categoria = None
    /\ llm_invoke = None
    /\ exibidos = <<>>
    /\ pc = "inicio"
    /\ relogio = 0

\* Lines 101-282: a run starts, takes the engine from st.cache_resource
\* (conectar_banco makes one when there is none) and calls verificar_mudancas.
Verificar ==
    /\ pc = "inicio"
    /\ relogio < MaxCiclos
    /\ relogio' = relogio + 1
    /\ \E l \in Leituras : leitura' = Some(l) /\ verificar_mudancas(l, relogio')
    /\ engine' = Some("engine")
    /\ pc' = apos_verificar(mudou')
    /\ UNCHANGED <<cache_classificacoes, messages, recurso, docs_info,
                   classificacao, exibidos>>

\* Lines 284-304: the change is displayed and st.cache_resource is cleared.
Invalidar ==
    /\ pc = "invalidar"
    /\ recurso' = None
    /\ engine' = None
    /\ pc' = "vectordb"
    /\ UNCHANGED <<sessao, messages, retorno, docs_info, leitura, classificacao, exibidos,
                   relogio>>

\* Line 307: criar_vectordb_teste under st.cache_resource: the cached value
\* when there is one, a new build (and its own catalog pass) otherwise.
\* Lines 342-354: the sidebar then shows the recent records of the history.
CarregarVectordb ==
    /\ pc = "vectordb"
    /\ IF recurso = None
         THEN \E l \in Leituras : recurso' = Some(criar_vectordb_teste(l, relogio))
         ELSE UNCHANGED recurso
    /\ docs_info' = recurso'
    /\ exibidos' = reversed(ultimos(historico_mudancas, N_HISTORICO))
    /\ pc' = "interacao"
    /\ UNCHANGED <<sessao, messages, engine, retorno, leitura, classificacao,
                   relogio>>

\* The run reaches the end of the script with no widget triggered.
FimDoScript ==
    /\ pc = "interacao"
    /\ retorna(FALSE, None, None, None, None, None)
    /\ docs_info' = None
    /\ leitura' = None
    /\ exibidos' = <<>>
    /\ pc' = "inicio"
    /\ UNCHANGED <<sessao, messages, recurso, engine, classificacao, relogio>>

\* Lines 358-360: the button "Limpar Chat".
LimparChat ==
    /\ pc = "interacao"
    /\ messages' = <<>>
    /\ retorna(FALSE, None, None, None, None, None)
    /\ docs_info' = None
    /\ leitura' = None
    /\ exibidos' = <<>>
    /\ pc' = "inicio"
    /\ UNCHANGED <<sessao, recurso, engine, classificacao, relogio>>

\* Variant: the button also forgets the stored fingerprint.
AtualizarBanco_esquece_hash ==
    /\ pc = "interacao"
    /\ recurso' = None
    /\ engine' = None
    /\ schema_hash_teste' = None
    /\ retorna(FALSE, None, None, None, None, None)
    /\ docs_info' = None
    /\ leitura' = None
    /\ exibidos' = <<>>
    /\ pc' = "inicio"
    /\ UNCHANGED <<schema_info, banco_atual, ultimas, historico_mudancas,
                   cache_classificacoes, messages, classificacao, relogio>>

\* Lines 362-364: the button "Atualizar Banco".
AtualizarBanco ==
    /\ pc = "interacao"
    /\ recurso' = None
    /\ engine' = None
    /\ retorna(FALSE, None, None, None, None, None)
    /\ docs_info' = None
    /\ leitura' = None
    /\ exibidos' = <<>>
    /\ pc' = "inicio"
    /\ UNCHANGED <<sessao, messages, classificacao, relogio>>

\* Lines 488-500: a question typed in the chat input is classified.  Nothing
\* reads the tuple of line 282 from here on; it is no longer tracked.
Pergunta ==
    /\ pc = "interacao"
    /\ Len(messages) < MaxMensagens
    /\ \E q \in Perguntas, r \in RespostasLLM :
           /\ prompt' = Some(q)
           /\ classificar_intencao(q, r)
    /\ messages' = Append(messages, "user")
    /\ retorna(FALSE, None, None, None, None, None)
    /\ leitura' = None
    /\ pc' = "respondido"
    /\ UNCHANGED <<observacao, ultimas, historico_mudancas, recurso, engine,
                   docs_info, exibidos, relogio>>

\* Lines 502-655: the answer for the category is shown and the run ends.
FimDaResposta ==
    /\ pc = "respondido"
    /\ messages' = Append(messages, "assistant")
    /\ docs_info' = None
    /\ prompt' = None
    /\ categoria' = None
    /\ llm_invoke' = None
    /\ exibidos' = <<>>
    /\ pc' = "inicio"
    /\ UNCHANGED <<sessao, recurso, engine, retorno, leitura, relogio>>

Next ==
    \/ Verificar
    \/ Invalidar
    \/ CarregarVectordb
    \/ FimDoScript
    \/ AtualizarBanco
    \/ LimparChat
    \/ Pergunta
    \/ FimDaResposta

Spec == Init /\ [][Next]_vars

\* ------------------------------------------- sessions with a long history
\* The longest history a session starts the model with.
MaxHistorico == 6

\* The tables of a set as a catalog pass lists them.
RECURSIVE sorted_set(_)
sorted_set(S) ==
    IF S = {} THEN <<>>
    ELSE LET k == CHOOSE x \in S : \A y \in S : x <= y
         IN <<k>> \o sorted_set(S \ {k})

outro(b) == IF b = "A" THEN "B" ELSE "A"

\* The snapshot without tables and the one with table 1 and its column 1.
info_vazia == [t \in {} |-> <<>>]
info_tabela_1 == [t \in {1} |-> <<1>>]

\* The session state after the baseline (database b, no tables) and n runs
\* that each detected a drift, the last of them at time t: the database is
\* switched in the 1st, 3rd, ... of them (lines 216-226), table 1 is created
\* or dropped in the 2nd, 4th, ... (lines 229-249).
RECURSIVE sessao_apos(_, _, _)
sessao_apos(n, b, t) ==
    IF n = 0
    THEN [banco |-> b, info |-> info_vazia, novas |-> {}, deletadas |-> {},
          historico |-> <<>>]
    ELSE LET s == sessao_apos(n - 1, b, t - 1)
             nova == IF DOMAIN s.info = {} THEN info_tabela_1 ELSE info_vazia
         IN IF n % 2 = 1
            THEN [s EXCEPT
                    !.banco = outro(s.banco),
                    !.historico = append(s.historico,
                                      registro_banco(t, s.banco, outro(s.banco)))]
            ELSE [s EXCEPT
                    !.info = nova,
                    !.novas = tabelas_novas(s.info, nova),
                    !.deletadas = tabelas_deletadas(s.info, nova),
                    !.historico = append(s.historico,
                                      registro_schema(t, s.banco,
                                          tabelas_novas(s.info, nova),
                                          tabelas_deletadas(s.info, nova)))]

\* A session between two runs, one run before the bound on relogio, whose
\* earlier runs left a history of up to MaxHistorico records; the cached
\* index was built by the last of them, or was dropped by "Atualizar Banco".
InitHistorico ==
    \E n \in 0..MaxHistorico, b \in Bancos :
      \E s \in {sessao_apos(n, b, MaxCiclos - 1)} :
        /\ schema_hash_teste = Some(md5(json_dumps(s.info)))
        /\ schema_info = Some(s.info)
        /\ banco_atual = Some(s.banco)
        /\ novas_tabelas = s.novas
        /\ deletadas_tabelas = s.deletadas
        /\ historico_mudancas = s.historico
        /\ cache_classificacoes = dict_vazio
        /\ messages = <<>>
        /\ recurso \in {None, Some(criar_vectordb_teste(
                                   [ok |-> TRUE, tabelas |-> sorted_set(DOMAIN s.info)],
                                   MaxCiclos - 1))}
        /\ engine = IF recurso = None THEN None ELSE Some("engine")
        /\ mudou = FALSE
        /\ hash_ant = None
        /\ hash_novo = None
        /\ schema = None
        /\ banco_lido = None
        /\ tipo_mudanca = None
        /\ docs_info = None
        /\ leitura = None
        /\ prompt = None
        /\ categoria = None
        /\ llm_invoke = None
        /\ exibidos = <<>>
        /\ pc = "inicio"
        /\ relogio = MaxCiclos - 1

SpecHistorico == InitHistorico /\ [][Next]_vars

\* ================================================================ claims
\* A step that is the verificar_mudancas call of a run (line 282).
PassoVerificar == pc = "inicio" /\ pc' # "inicio"

\* The last record of the change history.
Ultimo(h) == h[Len(h)]

\* What the call of this step observed: the catalog pass and the triple
\* (fingerprint, snapshot, identity) made of it.
Lido == Val(leitura')
Observado == gerar_hash_schema(Lido)

\* ---------------------------------------------------------------- C1
\* C1: with nothing stored yet, a successful observation is reported as no
\* change, appends nothing to historico_mudancas and becomes the baseline:
\* the stored fingerprint, snapshot and identity are the observed ones.
C1_PrimeiraObservacao ==
    [][ (PassoVerificar /\ schema_hash_teste = None /\ Lido.ok) =>
            /\ Observado.hash # None
            /\ mudou' = FALSE
            /\ tipo_mudanca' = None
            /\ historico_mudancas' = historico_mudancas
            /\ schema_hash_teste' = Observado.hash
            /\ schema_info' = Observado.info
            /\ banco_atual' = Observado.banco ]_vars

\* The first successful observation has just been adopted, after a run whose
\* catalog read failed.
C1_Witness ==
    /\ pc = "vectordb"
    /\ relogio = 2
    /\ Val(leitura).ok
    /\ hash_ant = None
    /\ schema_hash_teste = hash_novo
    /\ schema_info = schema
    /\ banco_atual = banco_lido
    /\ hash_novo # None
    /\ historico_mudancas = <<>>

\* ---------------------------------------------------------------- C2
\* C2: with a baseline stored, an observed identity that differs from the
\* stored one gives BANCO_NOVO and one appended record of kind banco_novo with
\* the previous and the new identity, whatever the fingerprints; the result of
\* that run is never SCHEMA_MUDOU.
C2_IdentidadeAntesDoConteudo ==
    [][ (PassoVerificar /\ schema_hash_teste # None /\ Lido.ok
         /\ obter_banco_atual(Lido) # Val(banco_atual)) =>
            /\ mudou' = TRUE
            /\ tipo_mudanca' = Some("BANCO_NOVO")
            /\ tipo_mudanca' # Some("SCHEMA_MUDOU")
            /\ historico_mudancas' =
                   Append(historico_mudancas,
                          [timestamp |-> relogio', tipo |-> "banco_novo",
                           banco_anterior |-> Val(banco_atual),
                           banco_novo |-> obter_banco_atual(Lido)]) ]_vars

\* A switch between two named databases whose fingerprints are equal, and one
\* whose fingerprints differ.
C2_Witness ==
    /\ pc = "invalidar"
    /\ tipo_mudanca = Some("BANCO_NOVO")
    /\ hash_ant = hash_novo
    /\ Ultimo(historico_mudancas).tipo = "banco_novo"
    /\ Ultimo(historico_mudancas).banco_anterior \in Bancos
    /\ Ultimo(historico_mudancas).banco_novo \in Bancos

\* ---------------------------------------------------------------- C3
\* C3: same identity, other fingerprint: the result is SCHEMA_MUDOU, the
\* added tables are the observed names minus the stored names, the removed
\* ones the stored names minus the observed names, and these two sets are in
\* the appended record and in novas_tabelas / deletadas_tabelas.
C3_Diferenca ==
    [][ (PassoVerificar /\ schema_hash_teste # None /\ Lido.ok
         /\ obter_banco_atual(Lido) = Val(banco_atual)
         /\ Observado.hash # schema_hash_teste) =>
            LET observadas == Range(Lido.tabelas)
                guardadas == DOMAIN Val(schema_info)
            IN /\ mudou' = TRUE
               /\ tipo_mudanca' = Some("SCHEMA_MUDOU")
               /\ Len(historico_mudancas') = Len(historico_mudancas) + 1
               /\ Ultimo(historico_mudancas').tipo = "schema"
               /\ Ultimo(historico_mudancas').novas = observadas \ guardadas
               /\ Ultimo(historico_mudancas').deletadas = guardadas \ observadas
               /\ novas_tabelas' = observadas \ guardadas
               /\ deletadas_tabelas' = guardadas \ observadas ]_vars

\* A schema change that both adds and removes a table.
C3_Witness ==
    /\ pc = "invalidar"
    /\ tipo_mudanca = Some("SCHEMA_MUDOU")
    /\ novas_tabelas # {}
    /\ deletadas_tabelas # {}
    /\ Ultimo(historico_mudancas).tipo = "schema"
    /\ Ultimo(historico_mudancas).novas = novas_tabelas
    /\ Ultimo(historico_mudancas).deletadas = deletadas_tabelas

\* ---------------------------------------------------------------- C4
\* C4: a run whose result is BANCO_NOVO or SCHEMA_MUDOU has an empty
\* cache_classificacoes when it reaches the chat input; the check of a run
\* with any other result leaves cache_classificacoes as it was.
C4_InvalidacaoDoCache ==
    [][ (pc \in {"inicio", "invalidar", "vectordb"} /\ pc' # "inicio") =>
            IF mudou'
            THEN pc' = "interacao" => cache_classificacoes' = dict_vazio
            ELSE cache_classificacoes' = cache_classificacoes ]_vars

\* ---------------------------------------------------------------- C5
\* The call of this step observes a drift: a baseline is stored and the
\* observed identity or fingerprint differs from it.
Desvio ==
    /\ Lido.ok
    /\ schema_hash_teste # None
    /\ (Observado.banco # banco_atual \/ Observado.hash # schema_hash_teste)

SemTimestamp(r) == [r EXCEPT !.timestamp = 0]

\* C5: historico_mudancas only grows at its end: a run that detects a drift
\* appends exactly one record (stamped with the time of that run), any other
\* step leaves the list as it is; nothing is removed, changed or reordered,
\* and a drift whose content equals an earlier one is recorded again.
C5_SoAcrescenta ==
    [][ IF PassoVerificar /\ Desvio
        THEN /\ Len(historico_mudancas') = Len(historico_mudancas) + 1
             /\ SubSeq(historico_mudancas', 1, Len(historico_mudancas))
                    = historico_mudancas
             /\ Ultimo(historico_mudancas').timestamp = relogio'
        ELSE historico_mudancas' = historico_mudancas ]_vars

\* Two records with the same content and different times are both in the list.
C5_Witness ==
    \E i, j \in DOMAIN historico_mudancas :
        /\ i < j
        /\ SemTimestamp(historico_mudancas[i]) = SemTimestamp(historico_mudancas[j])
        /\ historico_mudancas[i].timestamp < historico_mudancas[j].timestamp

\* ---------------------------------------------------------------- C6
\* C6: when the catalog read of a run fails, the run reports no drift, leaves
\* the stored identity, snapshot, fingerprint, novas_tabelas,
\* deletadas_tabelas, historico_mudancas and cache_classificacoes as they
\* were, skips the invalidation and keeps the cached index; nothing is stored
\* as if the schema were empty.
C6_FalhaDeLeitura ==
    [][ /\ (PassoVerificar /\ ~Lido.ok) =>
              /\ mudou' = FALSE
              /\ tipo_mudanca' = None
              /\ hash_novo' = None
              /\ UNCHANGED <<sessao, recurso>>
              /\ pc' = "vectordb"
        /\ (pc = "vectordb" /\ ~Val(leitura).ok) =>
              /\ UNCHANGED sessao
              /\ recurso # None => recurso' = recurso ]_vars

\* A failed read after a baseline with tables was stored: the baseline and the
\* index built in an earlier run are still there when the run reaches the chat.
C6_Witness ==
    /\ pc = "interacao"
    /\ ~Val(leitura).ok
    /\ schema_hash_teste # None
    /\ DOMAIN Val(schema_info) # {}
    /\ banco_atual \in { Some(b) : b \in Bancos }
    /\ Val(recurso).nome < relogio
    /\ docs_info = recurso

\* ---------------------------------------------------------------- C7
\* C7: when the identity query fails while the stored identity is the name of
\* a database, the run does not report BANCO_NOVO, appends no record and does
\* not overwrite the stored identity.
C7_FalhaDeIdentidade ==
    [][ (PassoVerificar /\ Lido.ok /\ Lido.banco = None
         /\ banco_atual # None /\ Val(banco_atual) \in Bancos) =>
            /\ tipo_mudanca' # Some("BANCO_NOVO")
            /\ historico_mudancas' = historico_mudancas
            /\ banco_atual' = banco_atual ]_vars

\* ---------------------------------------------------------------- C8
\* The call of this step observes the stored identity and fingerprint.
Igual ==
    /\ Lido.ok
    /\ schema_hash_teste # None
    /\ Observado.banco = banco_atual
    /\ Observado.hash = schema_hash_teste

\* The run in progress got "no change" from verificar_mudancas.
RunSemMudanca == pc # "inicio" /\ ~mudou /\ hash_ant # None

\* C8 as stated: a run that observes the stored identity and fingerprint
\* reports no change and, up to the chat input, leaves the session state and
\* the cached index exactly as they were (the index is never built in it).
C8_SemMudancaNadaMuda ==
    [][ /\ (PassoVerificar /\ Igual) =>
              /\ mudou' = FALSE
              /\ tipo_mudanca' = None
              /\ hash_ant' # None
              /\ UNCHANGED <<sessao, recurso>>
        /\ (pc \in {"invalidar", "vectordb"} /\ RunSemMudanca) =>
              UNCHANGED <<sessao, recurso>> ]_vars

\* C8 amended: such a run reports no change, leaves the session state as it
\* was and skips the invalidation; an index that is cached when line 307 runs
\* is the one the run uses, unchanged; a new one is built only when none is
\* cached.
C8_SemMudancaReusaIndice ==
    [][ /\ (PassoVerificar /\ Igual) =>
              /\ mudou' = FALSE
              /\ tipo_mudanca' = None
              /\ hash_ant' # None
              /\ UNCHANGED <<sessao, recurso>>
              /\ pc' = "vectordb"
        /\ (pc \in {"invalidar", "vectordb"} /\ RunSemMudanca) =>
              /\ UNCHANGED sessao
              /\ pc = "vectordb"
              /\ recurso # None => (recurso' = recurso /\ docs_info' = recurso)
              /\ recurso = None => Val(recurso').nome = relogio ]_vars

\* A no-change run after a drift and a classified question: the index of an
\* earlier run is in use, the history and the cache still hold their entries.
C8_Witness ==
    /\ pc = "interacao"
    /\ RunSemMudanca
    /\ hash_ant = hash_novo
    /\ Val(docs_info).nome < relogio
    /\ docs_info = recurso
    /\ historico_mudancas # <<>>
    /\ cache_classificacoes # dict_vazio

\* ---------------------------------------------------------------- C9
\* C9: in a run that detects a drift, the cached index is dropped right after
\* the detection, a new one is built at line 307 of that same run, and the
\* chat input of that run works with the index built in it.
C9_ReconstroiAntesDeUsar ==
    [][ /\ (PassoVerificar /\ Desvio) => (mudou' /\ pc' = "invalidar")
        /\ pc = "invalidar" => (mudou /\ recurso' = None /\ pc' = "vectordb")
        /\ (pc = "vectordb" /\ mudou) =>
              /\ recurso = None
              /\ recurso' # None
              /\ Val(recurso').nome = relogio
              /\ docs_info' = recurso'
              /\ pc' = "interacao"
        /\ (pc = "interacao" /\ mudou) =>
              (docs_info # None /\ Val(docs_info).nome = relogio) ]_vars

\* A drift run at the chat input, with the index built in that run, in a
\* session whose earlier run had built another one.
C9_Witness ==
    /\ pc = "interacao"
    /\ mudou
    /\ relogio >= 2
    /\ docs_info = recurso
    /\ Val(docs_info).nome = relogio

\* --------------------------------------------------------------- C10
\* The stored triple is whole: all three parts are set or none is, and the
\* stored fingerprint is the fingerprint of the stored snapshot.
Coerente ==
    /\ (schema_hash_teste = None) = (schema_info = None)
    /\ (schema_hash_teste = None) = (banco_atual = None)
    /\ schema_hash_teste # None =>
           schema_hash_teste = Some(md5(json_dumps(Val(schema_info))))

TriploObservado == <<Observado.hash, Observado.info, Observado.banco>>

DesvioRegistrado ==
    /\ Desvio
    /\ observacao' = TriploObservado
    /\ Len(historico_mudancas') = Len(historico_mudancas) + 1
    /\ SubSeq(historico_mudancas', 1, Len(historico_mudancas)) = historico_mudancas

\* C10 as stated: every run either leaves identity, snapshot, fingerprint and
\* history unchanged, or detects a drift, stores the observed triple and
\* appends one record; the stored triple is always whole.
C10_TudoOuNada ==
    /\ []Coerente
    /\ [][ IF PassoVerificar
           THEN \/ UNCHANGED <<observacao, historico_mudancas>>
                \/ DesvioRegistrado
           ELSE UNCHANGED <<observacao, historico_mudancas>> ]_vars

\* C10 amended: as above, with the third case of the first successful
\* observation, which stores the observed triple and appends nothing.
C10_TudoOuNadaOuPrimeira ==
    /\ []Coerente
    /\ [][ IF PassoVerificar
           THEN \/ UNCHANGED <<observacao, historico_mudancas>>
                \/ DesvioRegistrado
                \/ /\ schema_hash_teste = None
                   /\ Lido.ok
                   /\ observacao' = TriploObservado
                   /\ historico_mudancas' = historico_mudancas
           ELSE UNCHANGED <<observacao, historico_mudancas>> ]_vars

\* A drift to another database with another schema has just been stored:
\* the three stored parts are the returned ones and the record is in place.
C10_Witness ==
    /\ pc = "invalidar"
    /\ tipo_mudanca = Some("BANCO_NOVO")
    /\ hash_ant # hash_novo
    /\ schema_hash_teste = hash_novo
    /\ schema_info = schema
    /\ banco_atual = banco_lido
    /\ Ultimo(historico_mudancas).timestamp = relogio

\* --------------------------------------------------------------- C11
\* Two catalog passes list the same tables and, per table, the same columns.
MesmoCatalogo(l1, l2) ==
    /\ l1.ok /\ l2.ok
    /\ Range(l1.tabelas) = Range(l2.tabelas)
    /\ \A t \in Range(l1.tabelas) : Range(l1.colunas[t]) = Range(l2.colunas[t])

\* Every pass with the catalog of this step's pass gets the fingerprint and
\* the snapshot this step's pass got.
OrdemNaoImporta ==
    \A l2 \in Leituras :
        MesmoCatalogo(Lido, l2) =>
            /\ gerar_hash_schema(l2).hash = hash_novo'
            /\ gerar_hash_schema(l2).info = schema'

\* The catalog pass of this step lists what the stored snapshot holds.
MesmoQueGuardado ==
    /\ Lido.ok
    /\ schema_hash_teste # None
    /\ Range(Lido.tabelas) = DOMAIN Val(schema_info)
    /\ \A t \in Range(Lido.tabelas) :
           Range(Lido.colunas[t]) = Range(Val(schema_info)[t])

\* C11: catalog passes with the same tables and the same columns per table,
\* in whatever order, get the same fingerprint and the same snapshot from
\* gerar_hash_schema; a pass that lists the stored tables and columns in
\* another order is not reported as a schema change.
C11_OrdemNaoImporta ==
    [][ /\ (PassoVerificar /\ Lido.ok) => OrdemNaoImporta
        /\ (PassoVerificar /\ MesmoQueGuardado) =>
              /\ hash_novo' = schema_hash_teste
              /\ schema' = schema_info
              /\ tipo_mudanca' # Some("SCHEMA_MUDOU")
              /\ obter_banco_atual(Lido) = Val(banco_atual) => ~mudou' ]_vars

\* No change is reported for a pass that lists the two columns of table 1 in
\* descending order, and for one that lists the two tables so.
C11_Witness ==
    /\ pc = "vectordb"
    /\ ~mudou
    /\ hash_ant # None
    /\ hash_ant = hash_novo
    /\ \/ /\ Val(leitura).tabelas = <<1>>
          /\ Val(leitura).colunas[1] = <<2, 1>>
          /\ Val(schema_info)[1] = <<1, 2>>
       \/ /\ Val(leitura).tabelas = <<2, 1>>
          /\ DOMAIN Val(schema_info) = {1, 2}

\* --------------------------------------------------------------- C13
\* C13: after a run that records a drift, novas_tabelas and deletadas_tabelas
\* are the added and removed tables of the record just appended, and both
\* are empty when that record is a database switch.
C13_UltimasDoEventoRecente ==
    [][ (PassoVerificar /\ Desvio) =>
            IF Observado.banco # banco_atual
            THEN /\ Ultimo(historico_mudancas').tipo = "banco_novo"
                 /\ novas_tabelas' = {}
                 /\ deletadas_tabelas' = {}
            ELSE /\ Ultimo(historico_mudancas').tipo = "schema"
                 /\ novas_tabelas' = Ultimo(historico_mudancas').novas
                 /\ deletadas_tabelas' = Ultimo(historico_mudancas').deletadas ]_vars


\* --------------------------------------------------------------- C17
\* The catalog pass of this run lists a table name more than once.
TabelaRepetida ==
    /\ Lido.ok
    /\ Cardinality(Range(Lido.tabelas)) < Len(Lido.tabelas)

\* C17: a run whose catalog pass lists the same table name twice is handled
\* like a failed read: no change reported, no record appended, identity,
\* snapshot, fingerprint and cached index untouched, no invalidation.
C17_SnapshotMalformado ==
    [][ (PassoVerificar /\ TabelaRepetida) =>
            /\ mudou' = FALSE
            /\ tipo_mudanca' = None
            /\ UNCHANGED <<observacao, ultimas, historico_mudancas, recurso>>
            /\ pc' = "vectordb" ]_vars


\* --------------------------------------------------------------- C18
\* The run's catalog pass shows the stored identity and the stored table
\* names, with other columns in at least one of the tables.
SoColunasMudaram ==
    /\ Lido.ok
    /\ schema_hash_teste # None
    /\ Observado.banco = banco_atual
    /\ Range(Lido.tabelas) = DOMAIN Val(schema_info)
    /\ \E t \in Range(Lido.tabelas) :
           Range(Lido.colunas[t]) # Range(Val(schema_info)[t])

\* C18: a run that sees the stored database and table names with different
\* columns in some table reports SCHEMA_MUDOU, appends one "schema" record
\* with no added and no removed table, stores the observed snapshot and
\* fingerprint, and leaves novas_tabelas and deletadas_tabelas empty.
C18_SoColunas ==
    [][ (PassoVerificar /\ SoColunasMudaram) =>
            /\ mudou' = TRUE
            /\ tipo_mudanca' = Some("SCHEMA_MUDOU")
            /\ Len(historico_mudancas') = Len(historico_mudancas) + 1
            /\ SubSeq(historico_mudancas', 1, Len(historico_mudancas))
                   = historico_mudancas
            /\ Ultimo(historico_mudancas').tipo = "schema"
            /\ Ultimo(historico_mudancas').novas = {}
            /\ Ultimo(historico_mudancas').deletadas = {}
            /\ schema_info' = Observado.info
            /\ schema_hash_teste' = Observado.hash
            /\ schema_hash_teste' # schema_hash_teste
            /\ banco_atual' = banco_atual
            /\ novas_tabelas' = {}
            /\ deletadas_tabelas' = {}
            /\ pc' = "invalidar" ]_vars

\* Table 1 had column 1 only and now has columns 1 and 2: a schema change
\* with nothing added and nothing removed.
C18_Witness ==
    /\ pc = "invalidar"
    /\ tipo_mudanca = Some("SCHEMA_MUDOU")
    /\ hash_ant # hash_novo
    /\ DOMAIN Val(schema_info) = {1}
    /\ Val(schema_info)[1] = <<1, 2>>
    /\ Ultimo(historico_mudancas).tipo = "schema"
    /\ Ultimo(historico_mudancas).novas = {}
    /\ Ultimo(historico_mudancas).deletadas = {}
    /\ novas_tabelas = {}
    /\ deletadas_tabelas = {}


\* --------------------------------------------------------------- C19
\* C19: in a run that got "no change" and reuses an index built in an earlier
\* run, the tables described in the index are the tables of schema_info.
C19_IndiceDoSnapshot ==
    (/\ pc = "interacao"
     /\ RunSemMudanca
     /\ docs_info # None
     /\ Val(docs_info).nome < relogio)
        => Val(docs_info).tabelas = DOMAIN Val(schema_info)


\* --------------------------------------------------------------- C20
\* The previous run of the session appended a record to the history.
RunAnteriorDetectou ==
    /\ historico_mudancas # <<>>
    /\ Ultimo(historico_mudancas).timestamp = relogio

\* C20: a run that detects a drift stores what it observed, and the run right
\* after a run that detected a drift, observing the stored database name and
\* the stored tables and columns, reports no change, appends no record,
\* leaves the stored triple as it is and does not reach the invalidation.
C20_UmaVezSo ==
    [][ /\ (PassoVerificar /\ Desvio) => observacao' = TriploObservado
        /\ (PassoVerificar /\ RunAnteriorDetectou /\ MesmoQueGuardado
                /\ obter_banco_atual(Lido) = Val(banco_atual)) =>
              /\ mudou' = FALSE
              /\ tipo_mudanca' = None
              /\ historico_mudancas' = historico_mudancas
              /\ UNCHANGED <<observacao, recurso>>
              /\ pc' = "vectordb" ]_vars

\* The run after a detected drift has come back with "no change".
C20_Witness ==
    /\ pc = "vectordb"
    /\ RunSemMudanca
    /\ hash_ant = hash_novo
    /\ historico_mudancas # <<>>
    /\ Ultimo(historico_mudancas).timestamp = relogio - 1


\* --------------------------------------------------------------- C14
\* A step that is a call of classificar_intencao (line 500).
PassoClassificar == pc = "interacao" /\ pc' = "respondido"

\* The question of this step in lower case, without surrounding spaces.
Chave == strip(lower(Val(prompt')))

\* C14: entries of cache_classificacoes are never removed or changed; a
\* question that, in lower case and without surrounding spaces, equals a
\* stored key gets the stored category without a call of the classifier;
\* and what a call stores is stored under that form of the question.
C14_MemoNormalizado ==
    [][ /\ \A k \in DOMAIN cache_classificacoes :
              /\ k \in DOMAIN cache_classificacoes'
              /\ cache_classificacoes'[k] = cache_classificacoes[k]
        /\ (PassoClassificar /\ Chave \in DOMAIN cache_classificacoes) =>
              /\ categoria' = Some(cache_classificacoes[Chave])
              /\ llm_invoke' = None
              /\ cache_classificacoes' = cache_classificacoes
        /\ DOMAIN cache_classificacoes' # DOMAIN cache_classificacoes =>
              /\ PassoClassificar
              /\ DOMAIN cache_classificacoes'
                     = DOMAIN cache_classificacoes \cup {Chave} ]_vars

\* " OI" is answered from the entry stored under "oi", with no call.
C14_Witness ==
    /\ pc = "respondido"
    /\ prompt = Some(<<" ", "O", "I">>)
    /\ llm_invoke = None
    /\ DOMAIN cache_classificacoes = { <<"o", "i">> }
    /\ categoria = Some(cache_classificacoes[<<"o", "i">>])

\* --------------------------------------------------------------- C15
\* The classifier answered this step's call with a text that, stripped and
\* in upper case, is none of the four categories.
RespostaForaDoConjunto ==
    /\ llm_invoke' # None
    /\ Val(llm_invoke') # None
    /\ strip_upper(Val(Val(llm_invoke'))) \notin categorias_validas

\* C15: every category returned and every category stored is one of
\* SAUDACAO, GENERICA, QUERY_SQL, IRRELEVANTE, and an answer of the
\* classifier outside these is returned and stored as QUERY_SQL.
C15_CategoriasFechadas ==
    /\ [](/\ categoria # None => Val(categoria) \in categorias_validas
          /\ \A k \in DOMAIN cache_classificacoes :
                 cache_classificacoes[k] \in categorias_validas)
    /\ [][ (PassoClassificar /\ RespostaForaDoConjunto) =>
              /\ categoria' = Some("QUERY_SQL")
              /\ Chave \in DOMAIN cache_classificacoes'
              /\ cache_classificacoes'[Chave] = "QUERY_SQL" ]_vars

\* The classifier answered "Talvez": QUERY_SQL was returned and stored.
C15_Witness ==
    /\ pc = "respondido"
    /\ llm_invoke = Some(Some("Talvez"))
    /\ categoria = Some("QUERY_SQL")
    /\ cache_classificacoes[strip(lower(Val(prompt)))] = "QUERY_SQL"


\* --------------------------------------------------------------- C16
\* A step in which the sidebar is drawn.
PassoSidebar == pc = "vectordb" /\ pc' = "interacao"

\* C16: the sidebar shows the last N_HISTORICO records of the history, all of
\* them when there are fewer, the most recently appended first, and drawing
\* it leaves the history as it is.
C16_UltimosPrimeiro ==
    [][ PassoSidebar =>
          /\ Len(exibidos') =
                 IF Len(historico_mudancas) < N_HISTORICO
                 THEN Len(historico_mudancas) ELSE N_HISTORICO
          /\ \A i \in 1..Len(exibidos') :
                 exibidos'[i] = historico_mudancas[Len(historico_mudancas) - i + 1]
          /\ historico_mudancas' = historico_mudancas ]_vars

\* A history of more than N_HISTORICO records: the newest is on top, the
\* oldest ones are not shown.
C16_Witness ==
    /\ pc = "interacao"
    /\ Len(historico_mudancas) > N_HISTORICO
    /\ Len(exibidos) = N_HISTORICO
    /\ exibidos[1] = Ultimo(historico_mudancas)
    /\ exibidos[1].timestamp > exibidos[N_HISTORICO].timestamp
    /\ exibidos[N_HISTORICO] # historico_mudancas[1]


\* --------------------------------------------------------------- C21
\* The catalog pass and the identity query of this run both worked.
LeituraCompleta == Lido.ok /\ Lido.banco # None

\* The stored identity and snapshot, after the step, are those of the
\* database this run has read.
GuardadoIgualAoLido ==
    /\ banco_atual' = Lido.banco
    /\ DOMAIN Val(schema_info') = Range(Lido.tabelas)
    /\ \A t \in Range(Lido.tabelas) :
           Range(Val(schema_info')[t]) = Range(Lido.colunas[t])
    /\ schema_hash_teste' = Some(md5(json_dumps(Val(schema_info'))))

\* C21: a run whose reads work leaves the identity, snapshot and fingerprint
\* of the database it read in the session; a run that reads the database
\* already stored reports no change and leaves the stored triple and the
\* history as they are; and between two checks nothing writes them.  So once
\* the database stops changing, the first run stores it and every later run
\* reports no change and appends nothing.
C21_Convergencia ==
    [][ /\ (PassoVerificar /\ LeituraCompleta) => GuardadoIgualAoLido
        /\ (PassoVerificar /\ LeituraCompleta /\ MesmoQueGuardado
                /\ Lido.banco = banco_atual) =>
              /\ mudou' = FALSE
              /\ tipo_mudanca' = None
              /\ pc' = "vectordb"
              /\ UNCHANGED <<observacao, historico_mudancas>>
        /\ ~PassoVerificar => UNCHANGED <<observacao, historico_mudancas>> ]_vars

\* The run before this one recorded a drift; this one has read the same
\* database again, reported no change and reached the chat input.
C21_Witness ==
    /\ pc = "interacao"
    /\ ~mudou /\ hash_ant # None /\ tipo_mudanca = None
    /\ Len(historico_mudancas) = 1
    /\ historico_mudancas[1].timestamp = relogio - 1
    /\ Val(leitura).ok
    /\ Val(leitura).banco = banco_atual
    /\ Range(Val(leitura).tabelas) = DOMAIN Val(schema_info)
    /\ DOMAIN Val(schema_info) # {}


\* --------------------------------------------------------------- C22
\* C22: when llm.invoke raises, classificar_intencao returns QUERY_SQL and
\* leaves cache_classificacoes as it was; and a question whose normalised
\* form is not a key of the cache always reaches llm.invoke, so the question
\* of a failed call is sent to the classifier again when it is asked again.
C22_FalhaNaoMemorizada ==
    [][ /\ (PassoClassificar /\ llm_invoke' = Some(None)) =>
              /\ categoria' = Some("QUERY_SQL")
              /\ cache_classificacoes' = cache_classificacoes
              /\ Chave \notin DOMAIN cache_classificacoes'
        /\ (PassoClassificar /\ Chave \notin DOMAIN cache_classificacoes) =>
              llm_invoke' # None
        /\ ~PassoClassificar => cache_classificacoes' = cache_classificacoes ]_vars

\* A call in the second or a later run of the session has raised: QUERY_SQL
\* was returned and the cache still has no entry.
C22_Witness ==
    /\ pc = "respondido"
    /\ relogio >= 2
    /\ llm_invoke = Some(None)
    /\ categoria = Some("QUERY_SQL")
    /\ cache_classificacoes = dict_vazio


\* --------------------------------------------------------------- C23
\* What verificar_mudancas keeps in the session.
estado_de_mudancas == <<observacao, ultimas, historico_mudancas>>

\* C23: "Atualizar Banco" empties st.cache_resource (the index and the
\* engine) and ends the run with the stored identity, snapshot, fingerprint,
\* history, novas_tabelas and deletadas_tabelas as they were; "Limpar Chat"
\* empties messages and changes nothing else of the session or the cache; no
\* step that ends a run writes what verificar_mudancas keeps; and the history
\* only grows in a check that observes another identity or fingerprint than
\* the stored one.
C23_BotoesNaoTocamMudancas ==
    [][ /\ AtualizarBanco =>
              /\ recurso' = None
              /\ engine' = None
              /\ pc' = "inicio"
              /\ UNCHANGED <<estado_de_mudancas, cache_classificacoes, messages>>
        /\ LimparChat =>
              /\ messages' = <<>>
              /\ pc' = "inicio"
              /\ UNCHANGED <<estado_de_mudancas, cache_classificacoes, recurso,
                             engine>>
        /\ pc' = "inicio" => UNCHANGED estado_de_mudancas
        /\ historico_mudancas' # historico_mudancas =>
              PassoVerificar /\ Desvio ]_vars

\* After a question, a run with a drift ended by "Limpar Chat" and a run
\* ended by "Atualizar Banco": the cache of resources and the chat are
\* empty, the baseline and the history are there.
C23_Witness ==
    /\ pc = "inicio"
    /\ recurso = None
    /\ engine = None
    /\ messages = <<>>
    /\ DOMAIN cache_classificacoes # {}
    /\ schema_hash_teste # None
    /\ historico_mudancas # <<>>
    /\ Ultimo(historico_mudancas).timestamp < relogio

====
